---- MODULE Spec2Model ----
(***************************************************************************)
(* Liar's Dice rules engine: Player, Bid, RoundHandler, GameHandler and    *)
(* the main loop, as a state machine.  Every method is an operator from a  *)
(* store (the objects' fields) to the store it leaves behind together with *)
(* the exception it raised ("none" when it returned): a Python exception    *)
(* keeps the assignments made before it, so the partial effects of a       *)
(* failing call are part of the model.                                     *)
(***************************************************************************)
EXTENDS Integers, Sequences, FiniteSets, TLC

(* ---------------------------- bounds ----------------------------------- *)
\* dice each player starts with (GameHandler's dice_count argument)
StartDice == 2
\* faces of every die (Die's sides argument)
Sides == 2
\* direct start_round calls are taken while round_number is below this
MaxRound == 5
\* direct start_round calls are taken while no last_roll would outgrow this
MaxRollLen == 3
\* direct calls of Player.set_state and RoundHandler.next_player that are taken
MaxDirect == 1

(* ---------------------------- players ---------------------------------- *)
\* the players_names of a three-player game, and those main() plays with
ThreeNames == <<"A", "B", "C">>
MainNames == <<"Player1", "Player2">>
\* a name that matches no player
Nobody == "Nobody"

PlayerState == {"ACTIVE", "LOST", "WAITING", "WON"}
GameState == {"RUNNING", "OVER"}

\* Python's None for current_bid
None == [quantity |-> 0, value |-> 0, player |-> -1]
\* no player / no return value
NoOne == -1

VARIABLES
    names,              \* GameHandler.players_names, in list order
    state,              \* Player.state, per list index
    dice,               \* len(Player.dice), per list index
    last_roll,          \* Player.last_roll, per list index
    round_number,       \* RoundHandler.round_number
    current_player_id,  \* RoundHandler.current_player_id
    current_bid,        \* RoundHandler.current_bid
    dice_count,         \* RoundHandler.dice_count
    game_state,         \* GameHandler.game_state
    pc,                 \* where the caller is: "api" or a place in main()
    direct,             \* direct set_state / next_player calls made so far
    last                \* the last call that changed a field, and its outcome

vars == <<names, state, dice, last_roll, round_number, current_player_id,
          current_bid, dice_count, game_state, pc, direct, last>>

NumPlayers == Len(names)
\* list indices of RoundHandler.players
Idx == 0 .. (NumPlayers - 1)
NameOf(i) == names[i + 1]
NameInputs == {NameOf(i) : i \in Idx} \cup {Nobody}

\* the fields of the players and of the round handler, as one value
Store == [state |-> state, dice |-> dice, last_roll |-> last_roll,
          round_number |-> round_number,
          current_player_id |-> current_player_id,
          current_bid |-> current_bid, dice_count |-> dice_count]

Commit(s) ==
    /\ state' = s.state
    /\ dice' = s.dice
    /\ last_roll' = s.last_roll
    /\ round_number' = s.round_number
    /\ current_player_id' = s.current_player_id
    /\ current_bid' = s.current_bid
    /\ dice_count' = s.dice_count

\* a call that returned / a call that raised, with the store it leaves
Ok(s) == [s |-> s, exc |-> "none", ret |-> NoOne]
Raise(s, e) == [s |-> s, exc |-> e, ret |-> NoOne]

(* ---------------------------- Die -------------------------------------- *)
\* the values Die.roll can return
Faces == 1 .. Sides
\* one outcome of rolling every die of every hand: die k of player i
RollTapes == [Idx -> [1 .. StartDice -> Faces]]

(* ---------------------------- Player ----------------------------------- *)
get_dice_count(s, i) == s.dice[i]

is_active(s, i) == s.state[i] = "ACTIVE"

set_state(s, i, st) ==
    IF s.state[i] = "LOST"
    THEN Raise(s, "Exception")
    ELSE Ok([s EXCEPT !.state[i] = st])

\* lose_die that declares the player LOST one die too early
lose_die_early(s, i) ==
    IF s.dice[i] = 0
    THEN Raise(s, "IndexError")
    ELSE LET d == s.dice[i] - 1
         IN  Ok([s EXCEPT !.dice[i] = d,
                          !.state[i] = IF d <= 1 THEN "LOST" ELSE @])

\* variant: a penalty costs two dice while the hand holds them
lose_die_pair(s, i) ==
    IF s.dice[i] = 0
    THEN Raise(s, "IndexError")
    ELSE LET d == IF s.dice[i] >= 2 THEN s.dice[i] - 2 ELSE 0
         IN  Ok([s EXCEPT !.dice[i] = d,
                          !.state[i] = IF d = 0 THEN "LOST" ELSE @])

lose_die(s, i) ==
    IF s.dice[i] = 0
    THEN Raise(s, "IndexError")
    ELSE LET d == s.dice[i] - 1
         IN  Ok([s EXCEPT !.dice[i] = d,
                          !.state[i] = IF d = 0 THEN "LOST" ELSE @])

make_roll(s, i, count, tape) ==
    IF count < 1 THEN Raise(s, "ValueError")
    ELSE IF count > s.dice[i] THEN Raise(s, "ValueError")
    ELSE Ok([s EXCEPT !.last_roll[i] = @ \o [k \in 1 .. count |-> tape[k]]])

reset_roll(s, i) ==
    IF s.state[i] = "LOST"
    THEN Raise(s, "Exception")
    ELSE Ok([s EXCEPT !.last_roll[i] = <<>>])

(* ---------------------------- Bid -------------------------------------- *)
\* Bid.__init__: the exception it raises, "none" when the bid is built
BidInit(s, quantity, value, i) ==
    IF quantity < 1 \/ value < 1 THEN "ValueError"
    ELSE IF ~is_active(s, i) THEN "ValueError"
    ELSE "none"

\* Bid.__gt__
BidGt(a, b) == a.quantity > b.quantity \/ a.value > b.value

\* Bid.__lt__
BidLt(a, b) == a.quantity < b.quantity \/ a.value < b.value

(* ---------------------------- RoundHandler ----------------------------- *)
\* variant: an unknown name falls back to the first player
get_player_by_name_default(name) ==
    IF \E i \in Idx : NameOf(i) = name
    THEN CHOOSE i \in Idx : NameOf(i) = name
    ELSE 0

get_player_by_name(name) ==
    IF \E i \in Idx : NameOf(i) = name
    THEN CHOOSE i \in Idx : NameOf(i) = name
    ELSE NoOne

eliminate_player(s, i) == [s EXCEPT !.state[i] = "LOST"]

\* is_higher_bid without the "first bid" case: None compares as not lower
is_higher_bid_no_first(new_bid, cur_bid) ==
    IF cur_bid = None THEN FALSE
    ELSE IF new_bid.quantity > cur_bid.quantity THEN TRUE
    ELSE IF new_bid.quantity = cur_bid.quantity
            /\ new_bid.value > cur_bid.value THEN TRUE
    ELSE FALSE

\* variant: a bid equal to the standing bid is accepted as well
is_higher_bid_or_equal(new_bid, cur_bid) ==
    IF cur_bid = None THEN TRUE
    ELSE IF new_bid.quantity > cur_bid.quantity THEN TRUE
    ELSE IF new_bid.quantity = cur_bid.quantity
            /\ new_bid.value >= cur_bid.value THEN TRUE
    ELSE FALSE

is_higher_bid(new_bid, cur_bid) ==
    IF cur_bid = None THEN TRUE
    ELSE IF new_bid.quantity > cur_bid.quantity THEN TRUE
    ELSE IF new_bid.quantity = cur_bid.quantity
            /\ new_bid.value > cur_bid.value THEN TRUE
    ELSE FALSE

\* variant: the scan looks at the position after j first
RECURSIVE scan_waiting_skips(_, _)
scan_waiting_skips(s, j) ==
    IF s.state[(j + 1) % NumPlayers] = "WAITING" THEN (j + 1) % NumPlayers
    ELSE scan_waiting_skips(s, (j + 1) % NumPlayers)

\* the scan of next_player: the first index from j on, circularly, that is WAITING
RECURSIVE scan_waiting(_, _)
scan_waiting(s, j) ==
    IF s.state[j] = "WAITING" THEN j
    ELSE scan_waiting(s, (j + 1) % NumPlayers)

\* the positions the loop of next_player looks at, from j on, until it finds
\* a WAITING player; NumPlayers + 1 when it is still looking after a whole
\* turn of the table
RECURSIVE scan_positions(_, _, _)
scan_positions(s, j, n) ==
    IF s.state[j] = "WAITING" \/ n > NumPlayers THEN n
    ELSE scan_positions(s, (j + 1) % NumPlayers, n + 1)

\* variant: the next actor is made ACTIVE and the pointer stays behind
next_player_pointer_stays(s) ==
    LET s1 == [s EXCEPT !.state[s.current_player_id] = "WAITING"]
        j  == scan_waiting(s1, (s.current_player_id + 1) % NumPlayers)
    IN  [s1 EXCEPT !.state[j] = "ACTIVE"]

\* variant: the actor's roll is cleared when the turn passes
next_player_clears_roll(s) ==
    LET s1 == [s EXCEPT !.state[s.current_player_id] = "WAITING",
                        !.last_roll[s.current_player_id] = <<>>]
        j  == scan_waiting(s1, (s1.current_player_id + 1) % NumPlayers)
    IN  [s1 EXCEPT !.current_player_id = j, !.state[j] = "ACTIVE"]

next_player(s) ==
    LET s1 == [s EXCEPT !.state[s.current_player_id] = "WAITING"]
        j  == scan_waiting(s1, (s1.current_player_id + 1) % NumPlayers)
    IN  [s1 EXCEPT !.current_player_id = j, !.state[j] = "ACTIVE"]

\* the rolling loop of start_round, from player i on
RECURSIVE roll_all(_, _, _)
roll_all(s, i, tapes) ==
    IF i = NumPlayers THEN Ok(s)
    ELSE LET r == make_roll(s, i, get_dice_count(s, i), tapes[i])
         IN  IF r.exc # "none" THEN r ELSE roll_all(r.s, i + 1, tapes)

\* variant: the standing bid survives the start of a round
start_round_keeps_bid(s, tapes) ==
    LET s1 == [s EXCEPT !.round_number = @ + 1]
        r  == roll_all(s1, 0, tapes)
    IN  IF r.exc # "none" THEN r
        ELSE set_state(r.s, r.s.current_player_id, "ACTIVE")

\* variant: every round starts with the first player
start_round_from_zero(s, tapes) ==
    LET s1 == [s EXCEPT !.round_number = @ + 1]
        r  == roll_all(s1, 0, tapes)
    IN  IF r.exc # "none" THEN r
        ELSE set_state([r.s EXCEPT !.current_bid = None,
                                   !.current_player_id = 0], 0, "ACTIVE")

start_round(s, tapes) ==
    LET s1 == [s EXCEPT !.round_number = @ + 1]
        r  == roll_all(s1, 0, tapes)
    IN  IF r.exc # "none" THEN r
        ELSE set_state([r.s EXCEPT !.current_bid = None],
                       r.s.current_player_id, "ACTIVE")

\* variant: a bid is taken from a player in any state, by make_bid and by
\* the constructor of Bid
make_bid_any_state(s, player_name, number_of_dice, dice_value) ==
    LET i == get_player_by_name(player_name)
    IN  IF i = NoOne THEN Raise(s, "Exception")
        ELSE IF dice_value < 1 THEN Raise(s, "ValueError")
        ELSE IF s.dice[i] = 0 THEN Raise(s, "IndexError")
        ELSE IF dice_value > Sides THEN Raise(s, "ValueError")
        ELSE IF number_of_dice > s.dice_count THEN Raise(s, "ValueError")
        ELSE IF number_of_dice < 1 THEN Raise(s, "ValueError")
        ELSE LET new_bid == [quantity |-> number_of_dice,
                             value |-> dice_value, player |-> i]
             IN  IF ~is_higher_bid(new_bid, s.current_bid)
                 THEN Raise(s, "ValueError")
                 ELSE Ok(next_player([s EXCEPT !.current_bid = new_bid]))

make_bid(s, player_name, number_of_dice, dice_value) ==
    LET i == get_player_by_name(player_name)
    IN  IF i = NoOne THEN Raise(s, "Exception")
        ELSE IF dice_value < 1 THEN Raise(s, "ValueError")
        ELSE IF s.dice[i] = 0 THEN Raise(s, "IndexError")
        ELSE IF dice_value > Sides THEN Raise(s, "ValueError")
        ELSE IF number_of_dice > s.dice_count THEN Raise(s, "ValueError")
        ELSE IF s.state[i] # "ACTIVE" THEN Raise(s, "ValueError")
        ELSE IF BidInit(s, number_of_dice, dice_value, i) # "none"
             THEN Raise(s, BidInit(s, number_of_dice, dice_value, i))
        ELSE LET new_bid == [quantity |-> number_of_dice,
                             value |-> dice_value, player |-> i]
             IN  IF ~is_higher_bid(new_bid, s.current_bid)
                 THEN Raise(s, "ValueError")
                 ELSE Ok(next_player([s EXCEPT !.current_bid = new_bid]))

\* occurrences of value in a sequence of rolls
RECURSIVE occurrences(_, _)
occurrences(roll, value) ==
    IF roll = <<>> THEN 0
    ELSE (IF Head(roll) = value THEN 1 ELSE 0) + occurrences(Tail(roll), value)

RECURSIVE count_from(_, _, _)
count_from(s, i, value) ==
    IF i = NumPlayers THEN 0
    ELSE occurrences(s.last_roll[i], value) + count_from(s, i + 1, value)

\* count_dice_value: the exception it raises and the count it returns
count_dice_value(s, value) ==
    IF s.dice[s.current_player_id] = 0 THEN [exc |-> "IndexError", count |-> 0]
    ELSE IF value < 1 \/ value > Sides THEN [exc |-> "ValueError", count |-> 0]
    ELSE [exc |-> "none", count |-> count_from(s, 0, value)]

resolve_challenge(bidder, challenger, target_dice_amount, value_of_die) ==
    IF value_of_die < target_dice_amount THEN bidder ELSE challenger

\* variant: the total is recounted when a die is lost
apply_penalty_recount(s, i) ==
    LET r == lose_die(s, i)
    IN  IF r.exc # "none" THEN r
        ELSE IF get_dice_count(r.s, i) = 0
             THEN Ok([eliminate_player(r.s, i) EXCEPT !.dice_count = @ - 1])
             ELSE Ok([r.s EXCEPT !.dice_count = @ - 1])

apply_penalty(s, i) ==
    LET r == lose_die(s, i)
    IN  IF r.exc # "none" THEN r
        ELSE IF get_dice_count(r.s, i) = 0 THEN Ok(eliminate_player(r.s, i))
        ELSE r

\* the loop of reset_players_after_round, from player i on
RECURSIVE reset_from(_, _)
reset_from(s, i) ==
    IF i = NumPlayers THEN Ok(s)
    ELSE LET r == reset_roll(s, i)
         IN  IF r.exc # "none" THEN r
             ELSE IF get_dice_count(r.s, i) = 0
                  THEN reset_from(eliminate_player(r.s, i), i + 1)
                  ELSE LET w == set_state(r.s, i, "WAITING")
                       IN  IF w.exc # "none" THEN w
                           ELSE reset_from(w.s, i + 1)

reset_players_after_round(s) == reset_from(s, 0)

\* variant: a single survivor is enough for another round
check_if_start_next_round_one(s) ==
    Cardinality({i \in Idx : s.state[i] # "LOST"}) >= 1

check_if_start_next_round(s) ==
    Cardinality({i \in Idx : s.state[i] # "LOST"}) > 1

\* end_game_info: the winner's index, NoOne when it raises "No winner"
end_game_info(s) ==
    LET winners == {i \in Idx : s.state[i] # "LOST"}
    IN  IF winners # {}
        THEN CHOOSE i \in winners : \A j \in winners : i <= j
        ELSE NoOne

\* get_active_player: the first ACTIVE index, NoOne when it raises
get_active_player(s) ==
    LET act == {i \in Idx : is_active(s, i)}
    IN  IF act # {}
        THEN CHOOSE i \in act : \A j \in act : i <= j
        ELSE NoOne

\* who loses the challenge of player i against the standing bid
challenge_loser(s, i) ==
    resolve_challenge(s.current_bid.player, i, s.current_bid.quantity,
                      count_dice_value(s, s.current_bid.value).count)

\* challenge_and_end_round after its three checks: count, resolve, penalise,
\* reset, then start the next round or announce the winner
challenge_resolved(s, i, tapes) ==
    IF count_dice_value(s, s.current_bid.value).exc # "none"
    THEN Raise(s, count_dice_value(s, s.current_bid.value).exc)
    ELSE LET loser == challenge_loser(s, i)
             p == apply_penalty(s, loser)
         IN  IF p.exc # "none" THEN p
             ELSE LET r == reset_players_after_round(p.s)
                  IN  IF r.exc # "none" THEN r
                      ELSE IF check_if_start_next_round(r.s)
                           THEN LET n == start_round(r.s, tapes)
                                IN  IF n.exc # "none" THEN n
                                    ELSE [n EXCEPT !.ret = loser]
                           ELSE IF end_game_info(r.s) = NoOne
                                THEN Raise(r.s, "Exception")
                                ELSE [Ok(r.s) EXCEPT !.ret = loser]

\* variant: the player is looked up before the bid is tested
challenge_lookup_first(s, player_name, tapes) ==
    LET i == get_player_by_name(player_name)
    IN  IF i = NoOne THEN Raise(s, "Exception")
        ELSE IF s.current_bid = None THEN Raise(s, "ValueError")
        ELSE IF s.state[i] # "ACTIVE" THEN Raise(s, "ValueError")
        ELSE challenge_resolved(s, i, tapes)

\* variant: any player of the game may challenge
challenge_any_player(s, player_name, tapes) ==
    IF s.current_bid = None THEN Raise(s, "ValueError")
    ELSE LET i == get_player_by_name(player_name)
         IN  IF i = NoOne THEN Raise(s, "Exception")
             ELSE challenge_resolved(s, i, tapes)

challenge_and_end_round(s, player_name, tapes) ==
    IF s.current_bid = None THEN Raise(s, "ValueError")
    ELSE LET i == get_player_by_name(player_name)
         IN  IF i = NoOne THEN Raise(s, "Exception")
             ELSE IF s.state[i] # "ACTIVE" THEN Raise(s, "ValueError")
             ELSE challenge_resolved(s, i, tapes)

(* ---------------------------- GameHandler ------------------------------ *)
\* variant: every player may look at its roll
play_check_turn_any_player(s, i) == [Ok(s) EXCEPT !.ret = s.last_roll[i]]

\* play_check_turn returns last_roll of the player, the recorded list itself
play_check_turn(s, i) ==
    IF s.state[i] # "ACTIVE" THEN Raise(s, "Exception")
    ELSE [Ok(s) EXCEPT !.ret = s.last_roll[i]]

play_bid_turn(s, i, number_of_dice, dice_value) ==
    IF s.state[i] # "ACTIVE" THEN Raise(s, "Exception")
    ELSE make_bid(s, NameOf(i), number_of_dice, dice_value)

play_challenge_turn(s, i, tapes) ==
    IF s.state[i] # "ACTIVE" THEN Raise(s, "Exception")
    ELSE challenge_and_end_round(s, NameOf(i), tapes)

(* ---------------------------- the state machine ------------------------ *)
\* the record of a call: operation, player index, exception raised, value returned
Call(op, p, r) == [op |-> op, p |-> p, exc |-> r.exc, ret |-> r.ret]

\* last is the last call that changed a field; a call that changed nothing
\* (a rejected call, a check) leaves the whole state as it was
Record(op, p, r) == last' = IF r.s = Store THEN last ELSE Call(op, p, r)

\* GameHandler(players_names, d): players WAITING with hands of d dice;
\* RoundHandler.__init__ sums the hands into dice_count
InitWith(nm, d, where) ==
    /\ names = nm
    /\ state = [i \in Idx |-> "WAITING"]
    /\ dice = [i \in Idx |-> d]
    /\ last_roll = [i \in Idx |-> <<>>]
    /\ round_number = 0
    /\ current_player_id = 0
    /\ current_bid = None
    /\ dice_count = NumPlayers * d
    /\ game_state = "RUNNING"
    /\ pc = where
    /\ direct = 0
    /\ last = [op |-> "init", p |-> NoOne, exc |-> "none", ret |-> NoOne]

Init == InitWith(ThreeNames, StartDice, "api")

\* the quantities and face values a caller may submit
QuantityInputs == 0 .. (dice_count + 1)
ValueInputs == 0 .. (Sides + 1)

\* the roll outcomes that differ on the dice the hands d hold
TapesFor(d) ==
    {t \in RollTapes : \A i \in Idx : \A k \in 1 .. StartDice : k > d[i] => t[i][k] = 1}
FirstTape == [i \in Idx |-> [k \in 1 .. StartDice |-> 1]]

\* the roll outcomes a challenge by name can meet: it rolls only when it
\* starts the next round, with the hands the penalty has left
ChallengeTapes(name) ==
    LET r == challenge_and_end_round(Store, name, FirstTape)
    IN  IF r.s.round_number # round_number THEN TapesFor(r.s.dice) ELSE {FirstTape}

\* a direct start_round is taken only within the bounds of the model
StartRoundBounded ==
    /\ round_number < MaxRound
    /\ \A i \in Idx : Len(last_roll[i]) + dice[i] <= MaxRollLen

StartRound ==
    /\ pc = "api"
    /\ StartRoundBounded
    /\ \E tapes \in TapesFor(dice) :
          LET r == start_round(Store, tapes)
          IN  Commit(r.s) /\ Record("start_round", NoOne, r)
    /\ UNCHANGED <<names, game_state, pc, direct>>

MakeBid ==
    /\ pc = "api"
    /\ \E name \in NameInputs, q \in QuantityInputs, v \in ValueInputs :
          LET r == make_bid(Store, name, q, v)
          IN  Commit(r.s) /\ Record("make_bid", get_player_by_name(name), r)
    /\ UNCHANGED <<names, game_state, pc, direct>>

ChallengeAndEndRound ==
    /\ pc = "api"
    /\ \E name \in NameInputs : \E tapes \in ChallengeTapes(name) :
          LET r == challenge_and_end_round(Store, name, tapes)
          IN  Commit(r.s) /\ Record("challenge", get_player_by_name(name), r)
    /\ UNCHANGED <<names, game_state, pc, direct>>

PlayCheckTurn ==
    /\ pc = "api"
    /\ \E i \in Idx :
          LET r == play_check_turn(Store, i)
          IN  Commit(r.s) /\ Record("check", i, r)
    /\ UNCHANGED <<names, game_state, pc, direct>>

Next == StartRound \/ MakeBid \/ ChallengeAndEndRound \/ PlayCheckTurn

\* the turn operations, called in any order with any arguments
Spec == Init /\ [][Next]_vars

(* ---------------------------- direct calls ----------------------------- *)
\* RoundHandler.next_player called by the caller itself
NextPlayer ==
    /\ pc = "api"
    /\ direct < MaxDirect
    /\ LET s == next_player(Store)
       IN  Commit(s) /\ Record("next_player", current_player_id, Ok(s))
    /\ direct' = direct + 1
    /\ UNCHANGED <<names, game_state, pc>>

\* Player.set_state called by the caller itself
SetState ==
    /\ pc = "api"
    /\ direct < MaxDirect
    /\ \E i \in Idx, st \in PlayerState :
          LET r == set_state(Store, i, st)
          IN  Commit(r.s) /\ Record("set_state", i, r)
    /\ direct' = direct + 1
    /\ UNCHANGED <<names, game_state, pc>>

\* the start_round that opens the game
StartFirstRound == round_number = 0 /\ StartRound

NextAPI ==
    \/ StartFirstRound
    \/ MakeBid
    \/ ChallengeAndEndRound
    \/ PlayCheckTurn
    \/ NextPlayer
    \/ SetState

\* a game of one die each, with the methods of Player and RoundHandler
\* that the turn operations are built from also open to the caller
InitAPI == InitWith(ThreeNames, 1, "api")
SpecAPI == InitAPI /\ [][NextAPI]_vars

(* ---------------------------- main() ----------------------------------- *)
\* the end of one pass of main's loop, after the action left r: an
\* exception other than ValueError ends the process; otherwise the game-over
\* test runs, marks the winner WON and sets game_state to OVER
MainAfter(op, p, r) ==
    IF r.exc \notin {"none", "ValueError"}
    THEN /\ Commit(r.s) /\ Record(op, p, r)
         /\ pc' = "main_crashed"
         /\ UNCHANGED game_state
    ELSE IF check_if_start_next_round(r.s)
    THEN /\ Commit(r.s) /\ Record(op, p, r)
         /\ UNCHANGED <<names, game_state, pc>>
    ELSE IF end_game_info(r.s) = NoOne
    THEN /\ Commit(r.s) /\ Record(op, p, r)
         /\ pc' = "main_crashed"
         /\ UNCHANGED game_state
    ELSE /\ Commit([r.s EXCEPT !.state[end_game_info(r.s)] = "WON"])
         /\ last' = Call(op, p, r)
         /\ game_state' = "OVER"
         /\ pc' = "main_done"

\* game = GameHandler(...); game.start_round()
MainStart ==
    /\ pc = "main_start"
    /\ \E tapes \in TapesFor(dice) :
          LET r == start_round(Store, tapes)
          IN  Commit(r.s) /\ Record("start_round", NoOne, r)
    /\ pc' = "main_loop"
    /\ UNCHANGED <<names, game_state, direct>>

\* get_active_player found no one: its exception ends the process
MainNoActive ==
    /\ pc' = "main_crashed"
    /\ UNCHANGED <<state, dice, last_roll, round_number, current_player_id,
                   current_bid, dice_count, game_state, last>>

MainBid ==
    /\ pc = "main_loop" /\ game_state = "RUNNING"
    /\ LET p == get_active_player(Store)
       IN  IF p = NoOne THEN MainNoActive
           ELSE \E q \in QuantityInputs, v \in ValueInputs :
                   MainAfter("make_bid", p, play_bid_turn(Store, p, q, v))
    /\ UNCHANGED <<names, direct>>

MainChallenge ==
    /\ pc = "main_loop" /\ game_state = "RUNNING"
    /\ LET p == get_active_player(Store)
       IN  IF p = NoOne THEN MainNoActive
           ELSE \E tapes \in ChallengeTapes(NameOf(p)) :
                   MainAfter("challenge", p, play_challenge_turn(Store, p, tapes))
    /\ UNCHANGED <<names, direct>>

\* "Check", and any other answer: no field changes before the game-over test
MainCheck ==
    /\ pc = "main_loop" /\ game_state = "RUNNING"
    /\ LET p == get_active_player(Store)
       IN  IF p = NoOne THEN MainNoActive
           ELSE MainAfter("check", p, play_check_turn(Store, p))
    /\ UNCHANGED <<names, direct>>

NextMain == MainStart \/ MainBid \/ MainChallenge \/ MainCheck

InitMain == InitWith(MainNames, StartDice, "main_start")
SpecMain == InitMain /\ [][NextMain]_vars

\* main() with players that keep playing: the loop keeps running, and while
\* it asks a player, the player always eventually answers with a bid that is
\* accepted or with a challenge (a rejected action or a check is asked again)
MainAsks == pc = "main_loop" /\ game_state = "RUNNING"
SpecMainFair ==
    /\ InitMain /\ [][NextMain]_vars
    /\ WF_vars(MainStart)
    /\ \/ []<>(~MainAsks)
       \/ []<><<MainBid \/ MainChallenge>>_vars

(* ---------------------------- properties -------------------------------- *)
NotLost == {i \in Idx : state[i] # "LOST"}
Active == {i \in Idx : state[i] = "ACTIVE"}
\* the players that may challenge: ACTIVE while a bid stands
Challengers == {i \in Idx : state[i] = "ACTIVE" /\ current_bid # None}
\* the recorded roll values equal to the face of the standing bid
MatchingDice == count_from(Store, 0, current_bid.value)
\* the loser by the rule of the specification
RuleLoser(i) ==
    IF MatchingDice < current_bid.quantity THEN current_bid.player ELSE i

\* C1: once the first round has started and while at least two players are
\* not LOST, exactly one player is ACTIVE in every reachable state.
C1_ExactlyOneActive ==
    (round_number >= 1 /\ Cardinality(NotLost) >= 2) => Cardinality(Active) = 1

\* C2: a challenge by the ACTIVE player against a standing bid completes
\* without an error and returns a player's name, whatever the outcome.
C2_ChallengeCompletes ==
    \A i \in Challengers : \A tapes \in ChallengeTapes(NameOf(i)) :
        LET r == challenge_and_end_round(Store, NameOf(i), tapes)
        IN  r.exc = "none" /\ r.ret \in Idx

\* C3: with c matching dice against a bid of quantity q, the bidder loses
\* iff c < q and the challenger iff c >= q; the loser alone loses one die
\* and is the player whose name the challenge returns.
C3_ChallengeResolution ==
    \A i \in Challengers : \A tapes \in ChallengeTapes(NameOf(i)) :
        LET r == challenge_and_end_round(Store, NameOf(i), tapes)
        IN  /\ r.s.dice = [dice EXCEPT ![RuleLoser(i)] = @ - 1]
            /\ r.ret = RuleLoser(i)

\* C4: a resolved challenge that leaves at least two players not LOST has
\* started the next round: round_number is one higher, current_bid is None,
\* every player not LOST holds exactly a fresh roll of its hand, the player
\* at the rotation pointer is the one ACTIVE player and the others not LOST
\* are WAITING.
C4_NextRoundStarted ==
    \A i \in Challengers : \A tapes \in ChallengeTapes(NameOf(i)) :
        LET r == challenge_and_end_round(Store, NameOf(i), tapes)
            alive == {j \in Idx : r.s.state[j] # "LOST"}
        IN  (r.s.dice # dice /\ Cardinality(alive) >= 2) =>
                /\ r.s.round_number = round_number + 1
                /\ r.s.current_bid = None
                /\ \A j \in alive :
                      r.s.last_roll[j] = [k \in 1 .. r.s.dice[j] |-> tapes[j][k]]
                /\ {j \in Idx : r.s.state[j] = "ACTIVE"} = {r.s.current_player_id}
                /\ r.s.current_player_id \in alive
                /\ \A j \in alive \ {r.s.current_player_id} :
                      r.s.state[j] = "WAITING"

\* C5: when at most one player is not LOST the game is marked ended:
\* game_state is OVER.
C5_DecidedGameIsOver ==
    Cardinality(NotLost) <= 1 => game_state = "OVER"

\* C6: LOST is permanent: a player that is LOST is LOST after every step.
C6_LostIsPermanent ==
    [][\A i \in Idx : state[i] = "LOST" => state'[i] = "LOST"]_vars

\* C7: a player is LOST if and only if its hand is empty.
C7_LostIffEmptyHand ==
    \A i \in Idx : state[i] = "LOST" <=> dice[i] = 0

\* a challenge has taken a player's last die
C7_Witness ==
    /\ last.op = "challenge"
    /\ \E i \in Idx : state[i] = "LOST" /\ dice[i] = 0

\* C8: the rotation of an accepted bid never makes a LOST player ACTIVE;
\* after it exactly one player is ACTIVE, the previous actor is WAITING and
\* every player that was WAITING is still WAITING except the chosen one.
C8_NextPlayerRotation ==
    [][(current_bid' # current_bid /\ current_bid' # None) =>
          /\ state[current_player_id'] # "LOST"
          /\ {i \in Idx : state'[i] = "ACTIVE"} = {current_player_id'}
          /\ state'[current_player_id] = "WAITING"
          /\ \A k \in Idx \ {current_player_id'} :
                state[k] = "WAITING" => state'[k] = "WAITING"]_vars

\* C9: with the range and actor checks passing, make_bid accepts a
\* candidate over the standing bid iff Bid's > ranks it higher
\* (quantity higher OR face value higher).
C9_AcceptIffBidGt ==
    current_bid # None =>
        \A i \in Active : \A q \in 1 .. dice_count, v \in 1 .. Sides :
            LET cand == [quantity |-> q, value |-> v, player |-> i]
            IN  make_bid(Store, NameOf(i), q, v).exc = "none"
                    <=> BidGt(cand, current_bid)

\* C10: while no bid stands, every bid of the ACTIVE player with
\* 1 <= quantity <= dice_count and 1 <= face value <= faces is accepted and
\* becomes the standing bid.
C10_FirstBidAccepted ==
    current_bid = None =>
        \A i \in Active : \A q \in 1 .. dice_count, v \in 1 .. Sides :
            LET r == make_bid(Store, NameOf(i), q, v)
            IN  /\ r.exc = "none"
                /\ r.s.current_bid = [quantity |-> q, value |-> v, player |-> i]

\* the lowest bid, which only a first bid can be, has been accepted
C10_Witness ==
    /\ last.op = "make_bid" /\ last.exc = "none"
    /\ current_bid = [quantity |-> 1, value |-> 1, player |-> last.p]

\* a start_round that returns leaves no bid, and an accepted make_bid leaves
\* exactly the bid it was given
C11_AfterCalls ==
    /\ \A tapes \in TapesFor(dice) :
          LET r == start_round(Store, tapes)
          IN  r.exc = "none" => r.s.current_bid = None
    /\ \A name \in NameInputs, q \in QuantityInputs, v \in ValueInputs :
          LET r == make_bid(Store, name, q, v)
          IN  r.exc = "none" =>
                 r.s.current_bid = [quantity |-> q, value |-> v,
                                    player |-> get_player_by_name(name)]
\* current_bid changes only in an accepted make_bid or when a round starts
C11_Changes ==
    current_bid' # current_bid =>
       \/ /\ last'.op = "make_bid" /\ last'.exc = "none"
          /\ current_bid' # None /\ current_bid'.player = last'.p
       \/ /\ last'.op \in {"start_round", "challenge"}
          /\ current_bid' = None /\ round_number' = round_number + 1

\* C11: current_bid is None right after start_round; after an accepted
\* make_bid(p, q, v) it is exactly (q, v, p); and it stays so until the next
\* accepted bid or the next round start.
C11_BidRoundTrip == []C11_AfterCalls /\ [][C11_Changes]_vars
\* a second round has cleared a bid and a new bid of the round stands
C11_Witness ==
    /\ round_number >= 2 /\ last.op = "make_bid" /\ last.exc = "none"
    /\ current_bid # None /\ current_bid.player = last.p

\* the arguments of make_bid that are out of range
OutOfRange(q, v) == v < 1 \/ v > Sides \/ q < 1 \/ q > dice_count

\* C12: make_bid with a face value below 1 or above the face count of the
\* die, or a quantity below 1 or above dice_count, raises ValueError and
\* leaves current_bid, current_player_id and every state as they were.
C12_OutOfRangeRejected ==
    \A i \in Idx, q \in QuantityInputs, v \in ValueInputs :
       LET r == make_bid(Store, NameOf(i), q, v)
       IN  OutOfRange(q, v) => r.exc = "ValueError" /\ r.s = Store

\* the names that make_bid and challenge_and_end_round must turn away: the
\* name of no player, or of a player that is WAITING or LOST
NotActiveNames ==
    {name \in NameInputs :
        \A i \in Idx : NameOf(i) = name => state[i] # "ACTIVE"}

\* C13: make_bid naming a player that is not ACTIVE (WAITING or LOST), or a
\* name no player has, fails and leaves current_bid, current_player_id and
\* every state unchanged; so does play_bid_turn for a player not ACTIVE.
C13_NotActiveBidRejected ==
    /\ \A name \in NotActiveNames, q \in QuantityInputs, v \in ValueInputs :
          LET r == make_bid(Store, name, q, v)
          IN  r.exc # "none" /\ r.s = Store
    /\ \A i \in Idx, q \in QuantityInputs, v \in ValueInputs :
          LET r == play_bid_turn(Store, i, q, v)
          IN  state[i] # "ACTIVE" => r.exc # "none" /\ r.s = Store
\* a round is on and a WAITING and a LOST player stand next to the ACTIVE one
C13_Witness ==
    /\ round_number >= 1 /\ Active # {}
    /\ \E i \in Idx : state[i] = "WAITING"
    /\ \E i \in Idx : state[i] = "LOST"

\* with no bid standing challenge_and_end_round raises ValueError for every
\* name, known or not, and changes nothing
C14_NoBidRejected ==
    current_bid = None =>
       /\ \A name \in NameInputs :
             LET r == challenge_and_end_round(Store, name, FirstTape)
             IN  r.exc = "ValueError" /\ r.s = Store
       /\ \A i \in Active :
             LET r == play_challenge_turn(Store, i, FirstTape)
             IN  r.exc = "ValueError" /\ r.s = Store
\* no step taken while no bid stands is a challenge that changed anything
C14_BidComesFirst ==
    current_bid = None => (last' = last \/ last'.op # "challenge")

\* C14: a challenge while current_bid is None fails with ValueError ("No bid
\* to challenge"), tested before the player is looked up, and changes
\* nothing; so the first accepted action of every round is a bid.
C14_NoBidNoChallenge == []C14_NoBidRejected /\ [][C14_BidComesFirst]_vars
\* a later round has just started: no bid stands and a player is ACTIVE
C14_Witness ==
    round_number >= 2 /\ current_bid = None /\ Active # {} /\ last.op = "challenge"

\* C15: a challenge by a player that is not ACTIVE is rejected and leaves
\* hands, rolls, current_bid, round_number, current_player_id and every
\* state unchanged.
C15_NotActiveChallengeRejected ==
    /\ \A name \in NotActiveNames : \A tapes \in ChallengeTapes(name) :
          LET r == challenge_and_end_round(Store, name, tapes)
          IN  r.exc # "none" /\ r.s = Store
    /\ \A i \in Idx :
          LET r == play_challenge_turn(Store, i, FirstTape)
          IN  state[i] # "ACTIVE" => r.exc # "none" /\ r.s = Store
\* a bid stands and a WAITING player holding dice could try to challenge it
C15_Witness ==
    /\ current_bid # None /\ Active # {}
    /\ \E i \in Idx : state[i] = "WAITING" /\ dice[i] > 0 /\ i # current_bid.player

\* C16: check_if_start_next_round is false exactly when at most one player is
\* not LOST, and when exactly one player is not LOST end_game_info returns
\* that player.
C16_EndOfGameTest ==
    /\ (~check_if_start_next_round(Store)) <=> (\A i, j \in NotLost : i = j)
    /\ \A w \in Idx : NotLost = {w} => end_game_info(Store) = w
\* a challenge has left exactly one player not LOST
C16_Witness == last.op = "challenge" /\ Cardinality(NotLost) = 1

\* C17: in every reachable state at least one player is not LOST, so
\* end_game_info finds a winner.
C17_SomeoneNotLost == NotLost # {} /\ end_game_info(Store) # NoOne

RECURSIVE HandsFrom(_)
HandsFrom(i) == IF i = NumPlayers THEN 0 ELSE dice[i] + HandsFrom(i + 1)

\* C19: dice_count is the sum of the hands at construction and no operation
\* changes it; after dice are lost make_bid still accepts a quantity up to
\* that initial total, above the number of dice still held.
C19_TotalFixed ==
    /\ dice_count = NumPlayers * StartDice
    /\ \A i \in Active, v \in 1 .. Sides :
          LET r == make_bid(Store, NameOf(i), dice_count, v)
          IN  (current_bid = None \/ current_bid.quantity < dice_count) =>
                 /\ r.exc = "none"
                 /\ r.s.current_bid.quantity = dice_count
\* dice have been lost and a bid of the whole initial total was accepted
C19_Witness ==
    /\ HandsFrom(0) < dice_count
    /\ last.op = "make_bid" /\ last.exc = "none"
    /\ current_bid # None /\ current_bid.quantity = dice_count

\* a step starts a round when start_round, called directly or by a challenge,
\* returns: no bid stands and the player at current_player_id is ACTIVE
C20_RoundStarted ==
    /\ last'.op \in {"start_round", "challenge"} /\ last'.exc = "none"
    /\ current_bid' = None /\ state'[current_player_id'] = "ACTIVE"
    /\ \A i \in Idx : dice'[i] > 0 => Len(last_roll'[i]) >= dice'[i]
\* round_number grows by one in a step that starts a round and is left
\* alone by every other step
C20_Step ==
    /\ round_number' # round_number =>
          round_number' = round_number + 1 /\ C20_RoundStarted
    /\ (last'.op = "start_round" /\ last'.exc = "none") =>
          round_number' = round_number + 1

\* C20: round_number starts at 0, never decreases, and grows by exactly 1 on
\* each round start and on no other operation, so it counts the rounds that
\* have been started.
C20_RoundCounter == round_number = 0 /\ [][C20_Step]_vars

\* the bids Bid.__init__ accepts within the total of the game, by one player
ValidBids ==
    {[quantity |-> q, value |-> v, player |-> 0] :
        q \in 1 .. dice_count, v \in 1 .. Sides}

\* C21: Bid > is a total strict order on (quantity, value): of two bids that
\* differ in quantity or value exactly one is greater than the other, no bid
\* is greater than itself, and a < b holds iff b > a.
C21_BidTotalOrder ==
    \A a, b \in ValidBids :
       /\ a # b => (BidGt(a, b) <=> ~BidGt(b, a))
       /\ ~BidGt(a, a)
       /\ BidLt(a, b) <=> BidGt(b, a)

\* a challenge that passes its checks takes exactly one die, from the loser
\* of the challenge, whenever the loser holds a die
C22_PenaltyOfOne ==
    \A i \in Challengers : \A tapes \in ChallengeTapes(NameOf(i)) :
       LET r == challenge_and_end_round(Store, NameOf(i), tapes)
           l == RuleLoser(i)
       IN  dice[l] > 0 => r.s.dice = [dice EXCEPT ![l] = @ - 1]
\* no step adds a die; make_bid, start_round and the check leave every hand
\* alone; a challenge that changes anything takes one die from one player
C22_Step ==
    /\ \A i \in Idx : dice'[i] <= dice[i]
    /\ last'.op \in {"make_bid", "start_round", "check"} => dice' = dice
    /\ last'.op = "challenge" =>
          \E l \in Idx : dice[l] > 0 /\ dice' = [dice EXCEPT ![l] = @ - 1]

\* C22: hands only shrink: no operation increases a hand; each resolved
\* challenge takes exactly one die from the loser and leaves the other hands
\* alone; make_bid, start_round and the check change no hand.
C22_HandsOnlyShrink == []C22_PenaltyOfOne /\ [][C22_Step]_vars
\* a challenge has taken a die from one hand and another hand is still whole
C22_Witness ==
    /\ last.op = "challenge"
    /\ \E i, j \in Idx : dice[i] = StartDice - 1 /\ dice[j] = StartDice

\* C23: after every start_round that returns, last_roll of each player holds
\* exactly as many values as the player's hand has dice, in every state in
\* which start_round can be called, a second start_round with no challenge
\* in between included.
C23_RollMatchesHand ==
    \A tapes \in TapesFor(dice) :
       LET r == start_round(Store, tapes)
       IN  r.exc = "none" =>
              \A i \in Idx : Len(r.s.last_roll[i]) = r.s.dice[i]

\* C24: the check is a pure read: for the ACTIVE player it returns that
\* player's last_roll and leaves the whole state unchanged (the turn does not
\* pass; current_bid, rolls, hands and round_number stay); for a player that
\* is not ACTIVE it fails.
C24_CheckIsPureRead ==
    \A i \in Idx :
       LET r == play_check_turn(Store, i)
       IN  /\ r.s = Store
           /\ IF state[i] = "ACTIVE"
              THEN r.exc = "none" /\ r.ret = last_roll[i]
              ELSE r.exc # "none"
\* in the middle of a round the ACTIVE player holds a roll to look at and
\* another player is WAITING
C24_Witness ==
    /\ current_bid # None
    /\ \E i \in Active : last_roll[i] # <<>> /\ Len(last_roll[i]) = dice[i]
    /\ \E j \in Idx : state[j] = "WAITING"

\* C25: if the player entitled to act always eventually submits an accepted
\* bid or a challenge, the game eventually reaches its end with exactly one
\* player not LOST, and that player is the winner end_game_info reports.
C25_GameEndsWithWinner ==
    <>(/\ game_state = "OVER"
       /\ Cardinality(NotLost) = 1
       /\ end_game_info(Store) \in NotLost)

\* the nearest player after i in circular order that is not LOST (i itself
\* when no other player is left)
NextNotLost(i) ==
    LET k == CHOOSE k \in 1 .. NumPlayers :
                /\ state[(i + k) % NumPlayers] # "LOST"
                /\ \A m \in 1 .. (k - 1) : state[(i + m) % NumPlayers] = "LOST"
    IN  (i + k) % NumPlayers

\* C26: an accepted bid passes the turn round-robin: the new ACTIVE player is
\* the nearest player after the bidder in circular order that is not LOST,
\* no player that is not LOST is skipped, and the bidder becomes WAITING.
C26_RoundRobin ==
    \A i \in Active, q \in QuantityInputs, v \in ValueInputs :
       LET r == make_bid(Store, NameOf(i), q, v)
           nxt == NextNotLost(i)
       IN  r.exc = "none" =>
              /\ r.s.current_player_id = nxt
              /\ {j \in Idx : r.s.state[j] = "ACTIVE"} = {nxt}
              /\ r.s.state[i] = "WAITING"

\* C27: a challenge_and_end_round that ends in an error leaves the whole
\* state unchanged: no die is removed, no state or last_roll changes, and
\* current_bid and round_number keep their values.
C27_FailedChallengeChangesNothing ==
    \A name \in NameInputs : \A tapes \in ChallengeTapes(name) :
       LET r == challenge_and_end_round(Store, name, tapes)
       IN  r.exc # "none" => r.s = Store

\* C28: no deadlock while the game is undecided: once the first round has
\* started and while two players or more are not LOST, get_active_player
\* finds a player and that player has an action that is accepted: a
\* challenge whenever a bid stands, a bid whenever no bid stands.
C28_NoDeadlock ==
    (round_number >= 1 /\ Cardinality(NotLost) >= 2) =>
       LET p == get_active_player(Store)
       IN  /\ p # NoOne
           /\ current_bid # None =>
                 \E tapes \in ChallengeTapes(NameOf(p)) :
                    challenge_and_end_round(Store, NameOf(p), tapes).exc = "none"
           /\ current_bid = None =>
                 \E q \in QuantityInputs, v \in ValueInputs :
                    make_bid(Store, NameOf(p), q, v).exc = "none"

\* C29: whenever a player is ACTIVE, last_roll of every player holds exactly
\* as many values as the player's hand has dice, so a challenge counts only
\* dice that are held and an eliminated player adds nothing to the count.
C29_RollsMatchHands ==
    Active # {} => \A i \in Idx : Len(last_roll[i]) = dice[i]

\* C30: whenever a bid stands and a player is ACTIVE, the ACTIVE player is
\* not the author of the standing bid: no player can challenge its own bid.
C30_NoSelfChallenge ==
    current_bid # None => \A i \in Active : current_bid.player # i

\* the place of a bid in the order by quantity, then value; 0 for no bid
BidRank(b) == IF b = None THEN 0 ELSE (b.quantity - 1) * Sides + b.value

\* the standing bid lies within dice_count x Sides, and over the highest bid
\* of all no bid is accepted
C31_Bounded ==
    /\ BidRank(current_bid) \in 0 .. (dice_count * Sides)
    /\ current_bid # None =>
          /\ current_bid.quantity \in 1 .. dice_count
          /\ current_bid.value \in 1 .. Sides
    /\ BidRank(current_bid) = dice_count * Sides =>
          \A name \in NameInputs, q \in QuantityInputs, v \in ValueInputs :
             make_bid(Store, name, q, v).exc # "none"
\* a bid accepted over a standing bid is higher in quantity, or equal in
\* quantity and higher in value
C31_Step ==
    (last'.op = "make_bid" /\ last'.exc = "none") =>
       /\ BidRank(current_bid') > BidRank(current_bid)
       /\ current_bid # None =>
             \/ current_bid'.quantity > current_bid.quantity
             \/ /\ current_bid'.quantity = current_bid.quantity
                /\ current_bid'.value > current_bid.value

\* C31: within one round the accepted bids are strictly increasing in
\* (quantity, then value) and no pair is accepted twice, so a round accepts
\* at most dice_count x Sides bids before a challenge is the only action left.
C31_BidsIncrease == []C31_Bounded /\ [][C31_Step]_vars
\* the highest bid of all stands and a player is ACTIVE
C31_Witness ==
    /\ last.op = "make_bid" /\ Active # {}
    /\ current_bid # None /\ BidRank(current_bid) = dice_count * Sides

\* C32: a player in state ACTIVE is the player at current_player_id: in every
\* reachable state no other player is ACTIVE.
C32_ActiveAtPointer == \A i \in Active : i = current_player_id
\* in a later round, after bids, the ACTIVE player is not the first player
C32_Witness ==
    /\ round_number >= 2 /\ current_bid # None
    /\ Active = {current_player_id} /\ current_player_id # 0

\* C33: an accepted make_bid changes only current_bid, the state of the
\* bidder (to WAITING), the state of the next actor (to ACTIVE) and
\* current_player_id; every hand, every last_roll, round_number and
\* dice_count stay as they were.
C33_BidFrame ==
    \A i \in Active, q \in QuantityInputs, v \in ValueInputs :
       LET r == make_bid(Store, NameOf(i), q, v)
       IN  r.exc = "none" =>
              /\ r.s.dice = dice /\ r.s.last_roll = last_roll
              /\ r.s.round_number = round_number
              /\ r.s.dice_count = dice_count
              /\ \A j \in Idx : r.s.state[j] # state[j] =>
                    \/ j = i /\ r.s.state[j] = "WAITING"
                    \/ j = r.s.current_player_id /\ r.s.state[j] = "ACTIVE"
\* a bid has passed the turn: the bidder is WAITING, another player is
\* ACTIVE, and the rolls of the round are still there
C33_Witness ==
    /\ last.op = "make_bid" /\ last.exc = "none"
    /\ state[last.p] = "WAITING" /\ current_player_id # last.p
    /\ state[current_player_id] = "ACTIVE"
    /\ \A i \in Idx : Len(last_roll[i]) = dice[i] /\ dice[i] > 0

\* C34: once at most one player is not LOST the game is decided: no further
\* bid or challenge is accepted and no hand, state or roll changes.
C34_DecidedGameIsFrozen ==
    [][Cardinality(NotLost) <= 1 =>
          /\ current_bid' = current_bid
          /\ dice' = dice /\ state' = state /\ last_roll' = last_roll]_vars

\* the store once next_player has set the current actor to WAITING
Demoted == [Store EXCEPT !.state[current_player_id] = "WAITING"]
\* the positions next_player would look at in the current state
Scanned == scan_positions(Demoted, (current_player_id + 1) % NumPlayers, 1)

\* C35: next_player terminates whenever a WAITING player exists once the
\* current actor is demoted; the next_player of every accepted make_bid ends
\* after looking at no more than NumPlayers positions.
C35_ScanTerminates ==
    /\ (\E j \in Idx : Demoted.state[j] = "WAITING") => Scanned \in 1 .. NumPlayers
    /\ \A i \in Active, q \in QuantityInputs, v \in ValueInputs :
          LET r == make_bid(Store, NameOf(i), q, v)
          IN  r.exc = "none" =>
                 /\ Scanned \in 1 .. NumPlayers
                 /\ r.s.current_player_id = (current_player_id + Scanned) % NumPlayers
\* the bid of a sole survivor has sent the scan once round the whole table
C35_Witness ==
    /\ last.op = "make_bid" /\ last.exc = "none" /\ last.p = current_player_id
    /\ Scanned = NumPlayers
    /\ \A j \in Idx : j # current_player_id => state[j] = "LOST"


\* the dice on the table that show the face v, over every player's last_roll
ShownDice(v) ==
    {ik \in Idx \X (1 .. MaxRollLen) :
        ik[2] <= Len(last_roll[ik[1]]) /\ last_roll[ik[1]][ik[2]] = v}

\* C36: count_dice_value(v) for a face value v from 1 to the face count
\* returns the number of dice showing v over all players' last_roll, and for
\* a value outside that range it fails; the call changes no state.
C36_CountIsSum ==
    \A v \in ValueInputs :
       LET r == count_dice_value(Store, v)
       IN  IF v \in 1 .. Sides
           THEN r.exc = "none" /\ r.count = Cardinality(ShownDice(v))
           ELSE r.exc # "none"


\* C37: before the first start_round (round_number is 0) no player is ACTIVE
\* and current_bid is None, and every make_bid, challenge_and_end_round,
\* play_bid_turn, play_challenge_turn and play_check_turn raises and leaves
\* the state as it was.
C37_NothingBeforeFirstRound ==
    round_number = 0 =>
       /\ Active = {} /\ current_bid = None
       /\ \A name \in NameInputs, q \in QuantityInputs, v \in ValueInputs :
             LET r == make_bid(Store, name, q, v)
             IN  r.exc # "none" /\ r.s = Store
       /\ \A name \in NameInputs : \A tapes \in TapesFor(dice) :
             LET r == challenge_and_end_round(Store, name, tapes)
             IN  r.exc # "none" /\ r.s = Store
       /\ \A i \in Idx :
             /\ \A q \in QuantityInputs, v \in ValueInputs :
                   LET r == play_bid_turn(Store, i, q, v)
                   IN  r.exc # "none" /\ r.s = Store
             /\ \A tapes \in TapesFor(dice) :
                   LET r == play_challenge_turn(Store, i, tapes)
                   IN  r.exc # "none" /\ r.s = Store
             /\ LET r == play_check_turn(Store, i)
                IN  r.exc # "none" /\ r.s = Store
\* no round has started, and a bid that is in range is turned away because
\* its player is not ACTIVE
C37_Witness ==
    /\ round_number = 0 /\ last.op = "init"
    /\ \A i \in Idx : dice[i] = StartDice
    /\ make_bid(Store, NameOf(0), 1, 1).exc = "ValueError"


\* the players whose state is WON
Won == {i \in Idx : state[i] = "WON"}

\* C38: WON is terminal: set_state on a player that is WON raises and leaves
\* its state WON, a player that is WON is WON after every step, and at most
\* one player is WON in any state.
C38_WonIsTerminal ==
    /\ [](/\ Cardinality(Won) <= 1
          /\ \A i \in Won, st \in PlayerState :
                LET r == set_state(Store, i, st)
                IN  r.exc # "none" /\ r.s.state[i] = "WON")
    /\ [][\A i \in Won : state'[i] = "WON"]_vars

====
